---- MODULE Spec2Model ----
(***************************************************************************)
(* MoveWise web client: the persisted session store (authStore.ts), the    *)
(* HTTP client's bearer-token interceptor and the profile setup wizard     *)
(* (ProfileSetup, three revisions kept in the source tree).                *)
(***************************************************************************)
EXTENDS Integers, Sequences, FiniteSets, Bags, TLC

\* ---------------------------------------------------------------- bounds
MaxCalls == 2        \* overlapping asynchronous store calls
MaxSaves == 2        \* handleSubmit invocations suspended at the same time
MaxChecks == 2       \* checkProfile calls suspended at the same time

\* ---------------------------------------------------------------- values
Null == "null"
Tokens == {"tok1", "tok2"}      \* access tokens the backend may issue
Users == {"user1", "user2"}     \* user records the backend may return
Slots == 1..MaxCalls
LoginFailed == "Login failed"
RegistrationFailed == "Registration failed"
ServerDetail == "detail from server"
Undefined == <<"undefined">>   \* the JavaScript value undefined

VARIABLES
  token, user, isAuthenticated, isLoading, error,  \* AuthState
  localToken,      \* localStorage['token']
  authStorage,     \* localStorage['auth-storage'], written by persist
  calls,           \* the asynchronous store calls in flight, by slot
  lastOp,          \* the operation step that produced the current state
  lastReq,         \* the HTTP request that step sent, if any
  lastAlert,       \* the text of the window.alert that step raised, if any
  \* ProfileSetup
  variant,         \* which revision of ProfileSetup is mounted
  page,            \* "wizard" while ProfileSetup is mounted
  step, loading, wizardError, workFromHome, checkingProfile,
  formData, hobbyInput,
  isSubmitting, explicitSubmit,   \* the two refs
  checkPending,    \* the mount-time profileAPI.get() is unanswered
  saves,           \* bag of the handleSubmit invocations suspended at an
                   \* await, each with the promise it waits for
  clicked,         \* "Complete Setup" has been clicked at least once
  placePending,    \* a prediction of the address field has been picked and
                   \* its place_changed event has not fired yet
  \* the router
  app,             \* which revision of App is running: "jsx" or "tsx"
  path,            \* location.pathname
  below,           \* the pathname of the history entry under the current
                   \* one, where the browser's Back leads; Null when there
                   \* is none
  hasProfile, checkLoading,   \* state of ProfileCheckRoute (its loading)
  checkedPath,     \* the pathname ProfileCheckRoute's effect last ran for;
                   \* Null while the component is not mounted
  checks           \* checkProfile() calls of the mounted component that
                   \* await profileAPI.get()

authVars == <<token, user, isAuthenticated, isLoading, error, localToken,
              authStorage, calls>>

logVars == <<lastOp, lastReq, lastAlert>>

wizardVars == <<variant, page, step, loading, wizardError, workFromHome,
                checkingProfile, formData, hobbyInput, isSubmitting,
                explicitSubmit, checkPending, saves, clicked, placePending>>

routeVars == <<app, path, below, hasProfile, checkLoading, checkedPath,
               checks>>

\* ------------------------------------------------------- session store
partialize_tokenOnly(t, u, a) ==
  [token |-> t, user |-> Null, isAuthenticated |-> a]

\* what persist writes to the 'auth-storage' slot
partialize(t, u, a) == [token |-> t, user |-> u, isAuthenticated |-> a]

IdleCall == [kind |-> "none", pc |-> "idle", tok |-> Null, wrote |-> FALSE]

NoOp == [op |-> "init", kind |-> "none", settled |-> "no", tok |-> Null,
         usr |-> Null, wrote |-> FALSE, changed |-> {}]

NoReq == [path |-> "none", via |-> "none", hdr |-> Null, body |-> <<>>]

\* `Bearer ${token}`
Bearer(t) == "Bearer " \o t

\* an interceptor that attaches nothing
interceptor_withoutHeader == Null

\* request interceptor: the Authorization header a request sent through the
\* axios instance now carries; Null when it carries none
interceptor == IF localToken # Null THEN Bearer(localToken) ELSE Null

\* the session fields (store and persisted token) a step gave a new value
SessionChanged ==
  {n \in {"token"} : token' # token}
    \cup {n \in {"user"} : user' # user}
    \cup {n \in {"isAuthenticated"} : isAuthenticated' # isAuthenticated}
    \cup {n \in {"localToken"} : localToken' # localToken}

Changed ==
  SessionChanged
    \cup {n \in {"isLoading"} : isLoading' # isLoading}
    \cup {n \in {"error"} : error' # error}

\* the call as it stands after one more of its own steps
Stepped(c) == [c EXCEPT !.wrote = c.wrote \/ SessionChanged # {}]

\* the request as axios sends it: the interceptor adds the bearer token that
\* localStorage holds when the request goes out
Request(url, body) ==
  [path |-> url, via |-> "api", hdr |-> interceptor', body |-> body]

\* a request sent with the browser's fetch: only the headers given in the
\* call, which never include Authorization
Fetch(url) == [path |-> url, via |-> "fetch", hdr |-> Null, body |-> <<>>]

\* record of the step just taken: c is the call it belongs to (after the
\* step), settled how its promise stands ("no": still pending, or not a
\* call), u the user record it received, r the request it sent, a the
\* alert it raised
RecordAlert(name, settled, c, u, r, a) ==
  /\ lastOp' = [op |-> name, kind |-> c.kind, settled |-> settled,
                tok |-> c.tok, usr |-> u, wrote |-> c.wrote,
                changed |-> Changed]
  /\ lastReq' = r
  /\ lastAlert' = a

\* a step that raises no alert
Record(name, settled, c, u, r) == RecordAlert(name, settled, c, u, r, Null)

\* a step that leaves the router alone
Log(name, settled, c, u, r) ==
  /\ Record(name, settled, c, u, r)
  /\ UNCHANGED routeVars

\* ---------------------------------------------------------------- router
Apps == {"jsx", "tsx"}

Paths == {"/", "/login", "/dashboard", "/profile-setup", "/profile-settings",
          "/new-analysis", "/analysis/1", "/analysis/2"}

\* the routes of App.tsx whose element is wrapped in ProfileCheckRoute
CheckedPaths == {"/dashboard", "/new-analysis", "/analysis/1", "/analysis/2"}

\* the user records whose profile_setup_complete is true
ProfileSetupComplete == {"user2"}

\* what a route element renders
Content(component) == [kind |-> "content", what |-> component]

NavigateTo(to) == [kind |-> "navigate", what |-> to]

Spinner == [kind |-> "spinner", what |-> "Loading..."]

\* a gate that only looks at the profile flag
ProtectedRoute_withoutGate(children, requiresProfile) ==
  IF requiresProfile /\ user \notin ProfileSetupComplete
  THEN NavigateTo("/profile-setup")
  ELSE children

ProtectedRoute(children, requiresProfile) ==
  IF ~isAuthenticated
  THEN NavigateTo("/")
  ELSE IF requiresProfile /\ user \notin ProfileSetupComplete
  THEN NavigateTo("/profile-setup")
  ELSE children

\* a check route that lets an unanswered or failed check through
ProfileCheckRoute_failsOpen(children) ==
  IF checkLoading THEN Spinner ELSE children

ProfileCheckRoute(children) ==
  IF checkLoading
  THEN Spinner
  ELSE IF hasProfile = "false"
  THEN NavigateTo("/profile-setup")
  ELSE children

\* <Routes> of App.jsx
RoutesJsx ==
  CASE path = "/" -> Content("LandingPage")
    [] path = "/login" -> Content("Login")
    [] path = "/dashboard" -> ProtectedRoute(Content("Dashboard"), TRUE)
    [] path = "/profile-setup" ->
         ProtectedRoute(Content("ProfileSetup"), FALSE)
    [] path = "/profile-settings" ->
         ProtectedRoute(Content("ProfileSettings"), FALSE)
    [] path = "/new-analysis" ->
         ProtectedRoute(Content("LocationInput"), TRUE)
    [] path \in {"/analysis/1", "/analysis/2"} ->
         ProtectedRoute(Content("AnalysisDetailPage"), TRUE)
    [] OTHER -> NavigateTo("/")

\* <Routes> of App.tsx
RoutesTsx ==
  CASE path = "/" -> Content("Login")
    [] path = "/profile-setup" ->
         ProtectedRoute(Content("ProfileSetup"), FALSE)
    [] path = "/dashboard" ->
         ProtectedRoute(ProfileCheckRoute(Content("Dashboard")), FALSE)
    [] path = "/new-analysis" ->
         ProtectedRoute(ProfileCheckRoute(Content("LocationInput")), FALSE)
    [] path \in {"/analysis/1", "/analysis/2"} ->
         ProtectedRoute(ProfileCheckRoute(Content("AnalysisReport")), FALSE)
    [] OTHER -> NavigateTo("/")

\* what is on screen
Element == IF app = "jsx" THEN RoutesJsx ELSE RoutesTsx

\* a tree that mounts ProfileCheckRoute for visitors as well
ShouldMount_withoutAuth == app = "tsx" /\ path \in CheckedPaths

\* ProfileCheckRoute is part of the rendered tree
ShouldMount == app = "tsx" /\ path \in CheckedPaths /\ isAuthenticated

\* React has committed the render: no redirect and no effect is due
Settled ==
  /\ Element.kind # "navigate"
  /\ checkedPath = (IF ShouldMount THEN path ELSE Null)

\* a step of the store proper: ProfileSetup is not involved; the event is
\* handled once the previous render is committed
StoreLog(name, settled, c, u, r) ==
  /\ Settled
  /\ Log(name, settled, c, u, r)
  /\ UNCHANGED wizardVars

\* a removeItem that leaves the entry in place
removeItem_keepsEntry(entry) == entry

\* localStorage.removeItem('token'): the entry as it stands afterwards
removeItem(entry) == Null

\* set(partial) of zustand with the persist middleware: the slot is rewritten
SetSession(t, u, a) ==
  /\ token' = t
  /\ user' = u
  /\ isAuthenticated' = a
  /\ authStorage' = partialize(t, u, a)

KeepSession == UNCHANGED <<token, user, isAuthenticated, authStorage>>

FallbackOf(kind) == IF kind = "login" THEN LoginFailed ELSE RegistrationFailed

\* login / register up to the first await: the credential exchange is sent
loginStart(i, kind) ==
  /\ calls[i].pc = "idle"
  /\ isLoading' = TRUE
  /\ error' = Null
  /\ KeepSession
  /\ UNCHANGED localToken
  /\ LET c == Stepped([kind |-> kind, pc |-> "auth", tok |-> Null,
                       wrote |-> FALSE])
     IN /\ calls' = [calls EXCEPT ![i] = c]
        /\ StoreLog(kind, "no", c, Null, Request("POST /auth/" \o kind, <<>>))

login(i) == loginStart(i, "login")

register(i) == loginStart(i, "register")

\* the current-user request leaves before the token is stored
authOk_requestsFirst(i, t) ==
  /\ calls[i].pc = "auth"
  /\ localToken' = t
  /\ KeepSession
  /\ UNCHANGED <<isLoading, error>>
  /\ LET c == Stepped([calls[i] EXCEPT !.pc = "me", !.tok = t])
     IN /\ calls' = [calls EXCEPT ![i] = c]
        /\ StoreLog("authOk", "no", c, Null,
                    [path |-> "GET /auth/me", via |-> "api",
                     hdr |-> interceptor, body |-> <<>>])

\* the credential exchange answered with an access token: the token is
\* stored under 'token' and the current-user request is sent
authOk(i, t) ==
  /\ calls[i].pc = "auth"
  /\ localToken' = t
  /\ KeepSession
  /\ UNCHANGED <<isLoading, error>>
  /\ LET c == Stepped([calls[i] EXCEPT !.pc = "me", !.tok = t])
     IN /\ calls' = [calls EXCEPT ![i] = c]
        /\ StoreLog("authOk", "no", c, Null, Request("GET /auth/me", <<>>))

\* catch block of login / register; d is error.response?.data?.detail
loginCatch(i, d) ==
  /\ error' = IF d # Null THEN d ELSE FallbackOf(calls[i].kind)
  /\ isLoading' = FALSE
  /\ KeepSession
  /\ UNCHANGED localToken
  /\ calls' = [calls EXCEPT ![i] = IdleCall]
  /\ StoreLog("loginCatch", "rejected", Stepped(calls[i]), Null, NoReq)

authFail(i, d) ==
  /\ calls[i].pc = "auth"
  /\ loginCatch(i, d)

\* the current-user request of login / register succeeded
loginMeOk(i, u) ==
  /\ calls[i].pc = "me"
  /\ calls[i].kind \in {"login", "register"}
  /\ SetSession(calls[i].tok, u, TRUE)
  /\ isLoading' = FALSE
  /\ UNCHANGED <<error, localToken>>
  /\ calls' = [calls EXCEPT ![i] = IdleCall]
  /\ StoreLog("loginMeOk", "resolved", Stepped(calls[i]), u, NoReq)

loginMeFail(i, d) ==
  /\ calls[i].pc = "me"
  /\ calls[i].kind \in {"login", "register"}
  /\ loginCatch(i, d)

\* logout that forgets to reset the flag
logout_keepsFlag ==
  /\ localToken' = Null
  /\ SetSession(Null, Null, isAuthenticated)
  /\ UNCHANGED <<isLoading, error, calls>>
  /\ StoreLog("logout", "no", IdleCall, Null, NoReq)

logout ==
  /\ localToken' = removeItem(localToken)
  /\ SetSession(Null, Null, FALSE)
  /\ UNCHANGED <<isLoading, error, calls>>
  /\ StoreLog("logout", "no", IdleCall, Null, NoReq)

\* a fetchUser that asks for the user whether a token is stored or not
fetchUser_withoutGuard(i) ==
  /\ calls[i].pc = "idle"
  /\ KeepSession
  /\ UNCHANGED <<isLoading, error, localToken>>
  /\ LET c == [kind |-> "fetchUser", pc |-> "me", tok |-> localToken,
               wrote |-> FALSE]
     IN /\ calls' = [calls EXCEPT ![i] = c]
        /\ StoreLog("fetchUser", "no", c, Null,
                    Request("GET /auth/me", <<>>))

\* fetchUser up to its first await
fetchUser(i) ==
  /\ calls[i].pc = "idle"
  /\ KeepSession
  /\ UNCHANGED <<isLoading, error, localToken>>
  /\ IF localToken = Null
     THEN /\ UNCHANGED calls
          /\ StoreLog("fetchUser", "resolved", IdleCall, Null, NoReq)
     ELSE LET c == [kind |-> "fetchUser", pc |-> "me", tok |-> localToken,
                    wrote |-> FALSE]
          IN /\ calls' = [calls EXCEPT ![i] = c]
             /\ StoreLog("fetchUser", "no", c, Null,
                         Request("GET /auth/me", <<>>))

fetchMeOk(i, u) ==
  /\ calls[i].pc = "me"
  /\ calls[i].kind = "fetchUser"
  /\ SetSession(calls[i].tok, u, TRUE)
  /\ UNCHANGED <<isLoading, error, localToken>>
  /\ calls' = [calls EXCEPT ![i] = IdleCall]
  /\ StoreLog("fetchMeOk", "resolved", Stepped(calls[i]), u, NoReq)

\* a catch block that surfaces the failure the way login does
fetchMeFail_setsError(i) ==
  /\ calls[i].pc = "me"
  /\ calls[i].kind = "fetchUser"
  /\ localToken' = removeItem(localToken)
  /\ SetSession(Null, Null, FALSE)
  /\ error' = ServerDetail
  /\ UNCHANGED isLoading
  /\ calls' = [calls EXCEPT ![i] = IdleCall]
  /\ StoreLog("fetchMeFail", "rejected", Stepped(calls[i]), Null, NoReq)

\* catch block of fetchUser: the error is swallowed, the call resolves
fetchMeFail(i) ==
  /\ calls[i].pc = "me"
  /\ calls[i].kind = "fetchUser"
  /\ localToken' = removeItem(localToken)
  /\ SetSession(Null, Null, FALSE)
  /\ UNCHANGED <<isLoading, error>>
  /\ calls' = [calls EXCEPT ![i] = IdleCall]
  /\ StoreLog("fetchMeFail", "resolved", Stepped(calls[i]), Null, NoReq)

clearError ==
  /\ error' = Null
  /\ KeepSession
  /\ UNCHANGED <<isLoading, localToken, calls>>
  /\ StoreLog("clearError", "no", IdleCall, Null, NoReq)

\* page reload: pending calls die with the page, the store is created anew
\* and rehydrated from 'auth-storage', and App's mount effect calls fetchUser
reload ==
  /\ token' = authStorage.token
  /\ user' = authStorage.user
  /\ isAuthenticated' = authStorage.isAuthenticated
  /\ isLoading' = FALSE
  /\ error' = Null
  /\ UNCHANGED <<localToken, authStorage>>
  /\ LET c == IF localToken = Null THEN IdleCall
              ELSE [kind |-> "fetchUser", pc |-> "me", tok |-> localToken,
                    wrote |-> FALSE]
     IN /\ calls' = [j \in Slots |-> IF j = 1 THEN c ELSE IdleCall]
        /\ StoreLog("reload", "no", c, Null,
               IF localToken = Null THEN NoReq
               ELSE Request("GET /auth/me", <<>>))

\* -------------------------------------------------------- ProfileSetup
\* The source tree keeps three revisions of the wizard:
\*   "A"  the first component of part_003 (single error string)
\*   "B"  the second component of part_003 (work-from-home toggle)
\*   "C"  part_004 (field-level errors, free-text hobbies)
Variants == {"A", "B", "C"}

WorkStart == "09:00"
WorkEnd == "17:00"
SleepStart == "23:00"
SleepEnd == "07:00"
WorkFromHomeAddress == "Work from Home"
Addresses == {"", "123 Main St"}
CommuteModes == {"driving", "transit"}
NoisePreferences == {"quiet", "lively"}
HOBBY_OPTIONS == {"gym", "hiking"}
\* what the user may have typed in the hobby text field: sequences of
\* characters, a tag standing for its characters and " " for white space
HobbyInputs == {<<>>, <<" ">>, <<"gym", " ">>, <<"hiking">>}

\* hobby lists a stored profile may hold (profile.hobbies || [])
StoredHobbies == {<<>>, <<"hiking", "gym">>}

TimeFields == {"work_hours_start", "work_hours_end",
               "sleep_hours_start", "sleep_hours_end"}

TimeValue(f) ==
  CASE f = "work_hours_start" -> WorkStart
    [] f = "work_hours_end" -> WorkEnd
    [] f = "sleep_hours_start" -> SleepStart
    [] f = "sleep_hours_end" -> SleepEnd

\* what the user does to the time inputs: sets any of them, or clears a
\* start time
TimeInputs ==
  {<<f, TimeValue(f)>> : f \in TimeFields}
    \cup {<<f, "">> : f \in {"work_hours_start", "sleep_hours_start"}}

\* useState initial value of formData in each revision
InitialFormData(v) ==
  [work_hours_start |-> IF v = "B" THEN WorkStart ELSE "",
   work_hours_end |-> IF v = "B" THEN WorkEnd ELSE "",
   work_address |-> "",
   commute_preference |-> "driving",
   sleep_hours_start |-> IF v = "B" THEN SleepStart ELSE "",
   sleep_hours_end |-> IF v = "B" THEN SleepEnd ELSE "",
   noise_preference |-> "quiet",
   hobbies |-> <<>>]

\* String.prototype.trim on the typed characters
RECURSIVE trimStart(_)
trimStart(s) ==
  IF s # <<>> /\ Head(s) = " " THEN trimStart(Tail(s)) ELSE s

RECURSIVE trimEnd(_)
trimEnd(s) ==
  IF s # <<>> /\ s[Len(s)] = " " THEN trimEnd(SubSeq(s, 1, Len(s) - 1))
  ELSE s

RECURSIVE join(_)
join(s) == IF s = <<>> THEN "" ELSE Head(s) \o join(Tail(s))

trim(s) == join(trimEnd(trimStart(s)))

\* a membership test that never finds the element
includes_never(seq, x) == FALSE

includes(seq, x) == \E k \in 1..Len(seq) : seq[k] = x

filter(seq, x) == SelectSeq(seq, LAMBDA h : h # x)

\* a validation that does not ask for the work address
validationErrors_addressOptional(v, st, fd, wfh) ==
  IF st = 1 /\ (fd.work_hours_start = "" \/ fd.work_hours_end = "")
  THEN {"Please complete work schedule fields"}
  ELSE IF st = 2 /\ (fd.sleep_hours_start = "" \/ fd.sleep_hours_end = "")
  THEN {"Please complete all sleep schedule fields"}
  ELSE {}

\* validateStep (A, B) / validateStep1, validateStep2 (C): the messages the
\* validation of step st reports; the step is valid iff there is none
validationErrors(v, st, fd, wfh) ==
  CASE v = "A" ->
         IF st = 1 /\ (fd.work_hours_start = "" \/ fd.work_hours_end = ""
                        \/ fd.work_address = "")
         THEN {"Please complete all work schedule fields"}
         ELSE IF st = 2 /\ (fd.sleep_hours_start = ""
                             \/ fd.sleep_hours_end = "")
         THEN {"Please complete all sleep schedule fields"}
         ELSE {}
    [] v = "B" ->
         IF st = 1 /\ (fd.work_hours_start = "" \/ fd.work_hours_end = "")
         THEN {"Please complete work schedule fields"}
         ELSE IF st = 1 /\ ~wfh /\ fd.work_address = ""
         THEN {"Please enter work address or select \"Work from Home\""}
         ELSE IF st = 2 /\ (fd.sleep_hours_start = ""
                             \/ fd.sleep_hours_end = "")
         THEN {"Please complete all sleep schedule fields"}
         ELSE {}
    [] v = "C" ->
         IF st = 1
         THEN {m \in {"Work start time is required"} :
                 fd.work_hours_start = ""}
              \cup {m \in {"Work end time is required"} :
                      fd.work_hours_end = ""}
              \cup {m \in {"Work address is required"} :
                      fd.work_address = ""}
         ELSE IF st = 2
         THEN {m \in {"Sleep start time is required"} :
                 fd.sleep_hours_start = ""}
              \cup {m \in {"Wake up time is required"} :
                      fd.sleep_hours_end = ""}
         ELSE {}

hoursRange_withoutSpaces(start, end) == start \o "-" \o end

\* `${start} - ${end}`
hoursRange(start, end) == start \o " - " \o end

\* the commute_preference of the submitted object
commutePreferenceOf(v, fd, wfh) ==
  IF v = "B" /\ wfh THEN "none" ELSE fd.commute_preference

hobbies_emptyList(hobbies) == hobbies

\* formData.hobbies.length > 0 ? formData.hobbies : undefined
hobbiesOf(hobbies) == IF Len(hobbies) > 0 THEN hobbies ELSE Undefined

\* the object handed to profileAPI.createOrUpdate
profileData(v, fd, wfh) ==
  [work_hours |-> hoursRange(fd.work_hours_start, fd.work_hours_end),
   work_address |-> fd.work_address,
   commute_preference |-> commutePreferenceOf(v, fd, wfh),
   sleep_hours |-> hoursRange(fd.sleep_hours_start, fd.sleep_hours_end),
   noise_preference |-> fd.noise_preference,
   hobbies |-> hobbiesOf(fd.hobbies)]

\* the JSON body axios sends for it: JSON.stringify leaves out a key whose
\* value is undefined (hobbies is the only key that can be)
JsonBody(obj) ==
  [k \in {n \in DOMAIN obj : n # "hobbies" \/ obj.hobbies # Undefined}
     |-> obj[k]]

\* the wizard's form is on screen and takes events
FormMounted == page = "wizard" /\ (variant = "C" => ~checkingProfile)

WizardLog(name, kind, req) ==
  Log(name, "no", [IdleCall EXCEPT !.kind = kind], Null, req)

\* a navigation that records the new entry on top of the wizard's
ReplaceWithDashboard_pushes ==
  /\ path' = "/dashboard"
  /\ below' = path
  /\ UNCHANGED <<app, hasProfile, checkLoading, checkedPath, checks>>

\* navigate('/dashboard', { replace: true }): the wizard's history entry is
\* replaced, the entry under it stays
ReplaceWithDashboard ==
  /\ path' = "/dashboard"
  /\ UNCHANGED <<app, below, hasProfile, checkLoading, checkedPath, checks>>

\* a step of the wizard that ends with that navigation
WizardLeaves(name) ==
  /\ Record(name, "no", [IdleCall EXCEPT !.kind = "wizard"], Null, NoReq)
  /\ ReplaceWithDashboard

\* an input handler: only the draft (and the text field) changes
Edit(name, fd, hi, wfh) ==
  /\ formData' = fd
  /\ hobbyInput' = hi
  /\ workFromHome' = wfh
  /\ UNCHANGED <<variant, page, step, loading, wizardError, checkingProfile,
                 isSubmitting, explicitSubmit, checkPending, saves,
                 clicked, placePending>>
  /\ UNCHANGED authVars
  /\ WizardLog(name, "ui", NoReq)

setTime(f, val) ==
  /\ FormMounted
  /\ step = (IF f \in {"work_hours_start", "work_hours_end"} THEN 1 ELSE 2)
  /\ Edit("setTime", [formData EXCEPT ![f] = val], hobbyInput, workFromHome)

handleAddressChange(value) ==
  /\ FormMounted
  /\ step = 1
  /\ variant = "B" => ~workFromHome
  /\ Edit("handleAddressChange", [formData EXCEPT !.work_address = value], hobbyInput, workFromHome)

\* the user picks a prediction of the address field: the widget asks for
\* the place's details and fires place_changed when they arrive
selectPrediction ==
  /\ FormMounted
  /\ step = 1
  /\ variant = "B" => ~workFromHome
  /\ ~placePending
  /\ placePending' = TRUE
  /\ UNCHANGED <<variant, page, step, loading, wizardError, workFromHome,
                 checkingProfile, formData, hobbyInput, isSubmitting,
                 explicitSubmit, checkPending, saves, clicked>>
  /\ UNCHANGED authVars
  /\ WizardLog("selectPrediction", "ui", NoReq)

\* the place_changed listener: it is never removed, so it runs whenever the
\* details arrive, the address field still rendered or not, and hands the
\* formatted address to onChange (handleAddressChange)
place_changed(value) ==
  /\ page = "wizard"
  /\ placePending
  /\ value # ""
  /\ placePending' = FALSE
  /\ formData' = [formData EXCEPT !.work_address = value]
  /\ UNCHANGED <<variant, page, step, loading, wizardError, workFromHome,
                 checkingProfile, hobbyInput, isSubmitting, explicitSubmit,
                 checkPending, saves, clicked>>
  /\ UNCHANGED authVars
  /\ WizardLog("place_changed", "ui", NoReq)

setCommutePreference(mode) ==
  /\ FormMounted
  /\ step = 1
  /\ variant = "B" => ~workFromHome
  /\ Edit("setCommutePreference", [formData EXCEPT !.commute_preference = mode], hobbyInput,
          workFromHome)

\* a toggle that switches the commute mode but leaves the address alone
toggledFormData_keepsAddress(fd, wfh) ==
  IF ~wfh
  THEN [fd EXCEPT !.commute_preference = "none"]
  ELSE [fd EXCEPT !.work_address = "", !.commute_preference = "driving"]

\* the draft handleWorkFromHomeToggle stores; wfh is the toggle before it
toggledFormData(fd, wfh) ==
  IF ~wfh
  THEN [fd EXCEPT !.work_address = WorkFromHomeAddress,
                  !.commute_preference = "none"]
  ELSE [fd EXCEPT !.work_address = "", !.commute_preference = "driving"]

handleWorkFromHomeToggle ==
  /\ FormMounted
  /\ variant = "B"
  /\ step = 1
  /\ Edit("handleWorkFromHomeToggle", toggledFormData(formData, workFromHome),
          hobbyInput, ~workFromHome)

setNoisePreference(n) ==
  /\ FormMounted
  /\ step = 2
  /\ Edit("setNoisePreference", [formData EXCEPT !.noise_preference = n], hobbyInput, workFromHome)

toggleHobby(hobbyValue) ==
  /\ FormMounted
  /\ variant \in {"A", "B"}
  /\ step = 3
  /\ Edit("toggleHobby", [formData EXCEPT !.hobbies =
             IF includes(formData.hobbies, hobbyValue)
             THEN filter(formData.hobbies, hobbyValue)
             ELSE Append(formData.hobbies, hobbyValue)],
          hobbyInput, workFromHome)

setHobbyInput(text) ==
  /\ FormMounted
  /\ variant = "C"
  /\ step = 3
  /\ Edit("setHobbyInput", formData, text, workFromHome)

\* the Add button, or Enter in the text field (its default is prevented)
addHobby ==
  /\ FormMounted
  /\ variant = "C"
  /\ step = 3
  /\ IF trim(hobbyInput) # "" /\ ~includes(formData.hobbies, trim(hobbyInput))
     THEN Edit("addHobby", [formData EXCEPT !.hobbies = Append(@, trim(hobbyInput))],
               <<>>, workFromHome)
     ELSE Edit("addHobby", formData, hobbyInput, workFromHome)

removeHobby(hobby) ==
  /\ FormMounted
  /\ variant = "C"
  /\ step = 3
  /\ includes(formData.hobbies, hobby)
  /\ Edit("removeHobby", [formData EXCEPT !.hobbies = filter(@, hobby)], hobbyInput,
          workFromHome)

\* ---- the hobby list of ProfileSettings: the page keeps its draft in
\* profileData, which has the fields of the wizard's formData and is held in
\* the same variable; page = "settings" while ProfileSettings is mounted
settingsSetHobbyInput(text) ==
  /\ page = "settings"
  /\ Edit("settingsSetHobbyInput", formData, text, workFromHome)

settingsAddHobby ==
  /\ page = "settings"
  /\ IF trim(hobbyInput) # "" /\ ~includes(formData.hobbies, trim(hobbyInput))
     THEN Edit("settingsAddHobby",
               [formData EXCEPT !.hobbies = Append(@, trim(hobbyInput))],
               <<>>, workFromHome)
     ELSE Edit("settingsAddHobby", formData, hobbyInput, workFromHome)

settingsRemoveHobby(hobby) ==
  /\ page = "settings"
  /\ includes(formData.hobbies, hobby)
  /\ Edit("settingsRemoveHobby", [formData EXCEPT !.hobbies = filter(@, hobby)],
          hobbyInput, workFromHome)

\* ---- navigation between the steps
Navigate(st, errs) ==
  /\ step' = st
  /\ wizardError' = errs
  /\ UNCHANGED <<variant, page, loading, workFromHome, checkingProfile,
                 formData, hobbyInput, isSubmitting, explicitSubmit,
                 checkPending, saves, clicked, placePending>>
  /\ UNCHANGED authVars

\* a Next that advances without validating
handleNext_withoutValidation ==
  /\ FormMounted
  /\ step < 3
  /\ Navigate(step + 1, {})
  /\ WizardLog("next", "ui", NoReq)

\* the Next / Continue button, rendered on steps 1 and 2
handleNext ==
  /\ FormMounted
  /\ step < 3
  /\ LET errs == validationErrors(variant, step, formData, workFromHome)
     IN IF errs # {}
        THEN Navigate(step, errs)
        ELSE Navigate(step + 1, {})
  /\ WizardLog("next", "ui", NoReq)

\* a Back that first validates the step it leaves
handleBack_validates ==
  /\ FormMounted
  /\ step > 1
  /\ variant = "A" => ~loading
  /\ validationErrors(variant, step, formData, workFromHome) = {}
  /\ Navigate(step - 1, {})
  /\ WizardLog("back", "ui", NoReq)

\* the Back button, rendered on steps 2 and 3 (A disables it while loading)
handleBack ==
  /\ FormMounted
  /\ step > 1
  /\ variant = "A" => ~loading
  /\ Navigate(step - 1, {})
  /\ WizardLog("back", "ui", NoReq)

\* ---- submission
\* a suspended handleSubmit: the promise it awaits ("save": createOrUpdate,
\* "me": the current-user request of fetchUser, "timer": the 500 ms delay)
\* and the token fetchUser read
Awaiting(stage, tok) == [stage |-> stage, tok |-> tok]

Pending(stage) == {r \in BagToSet(saves) : r.stage = stage}

Remove(bag, r) == bag (-) SetToBag({r})

intentMissing_never(flag) == FALSE

\* if (!explicitSubmit.current) return
intentMissing(flag) == ~flag

\* C: if (step !== 3) return; A and B have no such test
notOnFinalStep(v, st) == v = "C" /\ st # 3

\* C: if (loading) return; A and B have no such test
alreadyProcessing(v, ld) == v = "C" /\ ld

\* handleSubmit up to its first await; flag is explicitSubmit.current on
\* entry, via tells a click on "Complete Setup" from a bare submit event
handleSubmit(flag, via) ==
  LET errs == validationErrors(variant, step, formData, workFromHome)
      stay == UNCHANGED <<variant, page, step, workFromHome, checkingProfile,
                          formData, hobbyInput, checkPending,
                          placePending>>
      blocked(f, e, name) ==
        /\ explicitSubmit' = f
        /\ wizardError' = e
        /\ UNCHANGED <<loading, isSubmitting, saves>>
        /\ WizardLog(name, via, NoReq)
      send(f, e) ==
        /\ BagCardinality(saves) < MaxSaves
        /\ explicitSubmit' = f
        /\ wizardError' = e
        /\ loading' = TRUE
        /\ isSubmitting' = TRUE
        /\ saves' = saves (+) SetToBag({Awaiting("save", Null)})
        /\ WizardLog("sent", via,
             Request("POST /profile/",
                     JsonBody(profileData(variant, formData, workFromHome))))
  IN /\ stay
     /\ UNCHANGED authVars
     /\ IF variant \in {"A", "B"}
        THEN IF intentMissing(flag)
             THEN blocked(flag, wizardError, "blocked")
             ELSE IF errs # {} THEN blocked(FALSE, errs, "invalid")
             ELSE send(flag, {})
        ELSE IF intentMissing(flag)
             THEN blocked(FALSE, wizardError, "blocked")
             ELSE IF notOnFinalStep(variant, step)
             THEN blocked(FALSE, wizardError, "blocked")
             ELSE IF alreadyProcessing(variant, loading)
             THEN blocked(FALSE, wizardError, "blocked")
             ELSE send(FALSE, wizardError)

\* a click on "Complete Setup" (step 3, disabled while loading): the flag is
\* set and the form is submitted
handleCompleteSetup ==
  /\ FormMounted
  /\ step = 3
  /\ ~loading
  /\ clicked' = TRUE
  /\ handleSubmit(TRUE, "click")

\* a submit event of the form that no click on "Complete Setup" produced
submitEvent ==
  /\ FormMounted
  /\ UNCHANGED clicked
  /\ handleSubmit(explicitSubmit, "event")

\* ---- completions

errorMessage(d) ==
  IF d # Null THEN d ELSE "Failed to create profile. Please try again."

\* C reports a failed save with window.alert and writes no error state
SaveFailedAlert == "Failed to save profile. Please try again."

\* navigate('/dashboard', { replace: true }): ProfileSetup is unmounted and
\* React drops its state; the refs live on in the closures of the handlers
\* that are still suspended
Unmount ==
  /\ page' = "dashboard"
  /\ step' = 1
  /\ loading' = FALSE
  /\ wizardError' = {}
  /\ workFromHome' = FALSE
  /\ checkingProfile' = FALSE
  /\ formData' = InitialFormData(variant)
  /\ hobbyInput' = <<>>
  /\ placePending' = FALSE

\* the success path of handleSubmit: navigate, then the finally block
Finish(r) ==
  /\ Unmount
  /\ saves' = Remove(saves, r)
  /\ UNCHANGED <<variant, isSubmitting, explicitSubmit, checkPending,
                 clicked>>

Suspend(r, stage, tok) ==
  /\ saves' = Remove(saves, r) (+) SetToBag({Awaiting(stage, tok)})
  /\ UNCHANGED <<variant, page, step, loading, wizardError, workFromHome,
                 checkingProfile, formData, hobbyInput, isSubmitting,
                 explicitSubmit, checkPending, clicked, placePending>>

\* profileAPI.createOrUpdate resolved
saveOk(r) ==
  /\ r \in Pending("save")
  /\ UNCHANGED authVars
  /\ CASE variant = "A" ->
            /\ Finish(r)
            /\ WizardLeaves("saveOk")
       [] variant = "B" ->
            \* await fetchUser()
            IF localToken = Null
            THEN /\ Finish(r)
                 /\ WizardLeaves("saveOk")
            ELSE /\ Suspend(r, "me", localToken)
                 /\ WizardLog("saveOk", "wizard",
                              Request("GET /auth/me", <<>>))
       [] variant = "C" ->
            \* await new Promise(resolve => setTimeout(resolve, 500))
            /\ Suspend(r, "timer", Null)
            /\ WizardLog("saveOk", "wizard", NoReq)

\* a catch block that leaves the in-flight guard set
saveFail_keepsGuard(r, d) ==
  /\ r \in Pending("save")
  /\ UNCHANGED authVars
  /\ UNCHANGED isSubmitting
  /\ saves' = Remove(saves, r)
  /\ explicitSubmit' = IF variant = "C" THEN explicitSubmit ELSE FALSE
  /\ IF page = "wizard"
     THEN /\ loading' = FALSE
          /\ wizardError' =
               IF variant = "C" THEN wizardError ELSE {errorMessage(d)}
     ELSE UNCHANGED <<loading, wizardError>>
  /\ UNCHANGED <<variant, page, step, workFromHome, checkingProfile,
                 formData, hobbyInput, checkPending, clicked, placePending>>
  /\ RecordAlert("saveFailed", "no", [IdleCall EXCEPT !.kind = "wizard"],
                 Null, NoReq,
                 IF variant = "C" THEN SaveFailedAlert ELSE Null)
  /\ UNCHANGED routeVars

\* profileAPI.createOrUpdate rejected; d is err.response?.data?.detail
saveFail(r, d) ==
  /\ r \in Pending("save")
  /\ UNCHANGED authVars
  /\ isSubmitting' = FALSE
  /\ saves' = Remove(saves, r)
  /\ explicitSubmit' = IF variant = "C" THEN explicitSubmit ELSE FALSE
  /\ IF page = "wizard"
     THEN /\ loading' = FALSE
          /\ wizardError' =
               IF variant = "C" THEN wizardError ELSE {errorMessage(d)}
     ELSE UNCHANGED <<loading, wizardError>>
  /\ UNCHANGED <<variant, page, step, workFromHome, checkingProfile,
                 formData, hobbyInput, checkPending, clicked, placePending>>
  /\ RecordAlert("saveFailed", "no", [IdleCall EXCEPT !.kind = "wizard"],
                 Null, NoReq,
                 IF variant = "C" THEN SaveFailedAlert ELSE Null)
  /\ UNCHANGED routeVars

\* B: the current-user request of the awaited fetchUser() succeeded
saveFetchOk(r, u) ==
  /\ r \in Pending("me")
  /\ SetSession(r.tok, u, TRUE)
  /\ UNCHANGED <<isLoading, error, localToken, calls>>
  /\ Finish(r)
  /\ WizardLeaves("saveFetchOk")

\* B: it failed; fetchUser() clears the session and resolves
saveFetchFail(r) ==
  /\ r \in Pending("me")
  /\ localToken' = removeItem(localToken)
  /\ SetSession(Null, Null, FALSE)
  /\ UNCHANGED <<isLoading, error, calls>>
  /\ Finish(r)
  /\ WizardLeaves("saveFetchFail")

\* C: the 500 ms timer fired
saveTimer(r) ==
  /\ r \in Pending("timer")
  /\ UNCHANGED authVars
  /\ Finish(r)
  /\ WizardLeaves("saveTimer")

\* the mount-time checkExistingProfile got its answer: a profile, null, or
\* a rejection
checkExistingProfile(result) ==
  /\ checkPending
  /\ checkPending' = FALSE
  /\ UNCHANGED authVars
  /\ IF result = "profile" /\ ~isSubmitting
     THEN /\ Unmount
          /\ WizardLeaves("checked")
     ELSE /\ IF page = "wizard"
             THEN /\ IF variant = "C"
                     THEN /\ checkingProfile' = FALSE
                          /\ UNCHANGED loading
                     ELSE /\ loading' = FALSE
                          /\ UNCHANGED checkingProfile
                  /\ UNCHANGED <<page, step, wizardError, workFromHome,
                                 formData, hobbyInput, placePending>>
             ELSE UNCHANGED <<page, step, loading, wizardError, workFromHome,
                              checkingProfile, formData, hobbyInput,
                              placePending>>
          /\ WizardLog("checked", "wizard", NoReq)
  /\ UNCHANGED <<variant, isSubmitting, explicitSubmit, saves, clicked>>

\* ProfileSetup enters the tree: fresh state and refs, and the mount effect
\* calls checkExistingProfile; the next instance is mounted once the check
\* of the previous one is answered
mountProfileSetup ==
  /\ Element = Content("ProfileSetup")
  /\ page # "wizard"
  /\ ~checkPending
  /\ UNCHANGED authVars
  /\ page' = "wizard"
  /\ step' = 1
  /\ loading' = FALSE
  /\ wizardError' = {}
  /\ workFromHome' = FALSE
  /\ checkingProfile' = (variant = "C")
  /\ formData' = InitialFormData(variant)
  /\ hobbyInput' = <<>>
  /\ isSubmitting' = FALSE
  /\ explicitSubmit' = FALSE
  /\ checkPending' = TRUE
  /\ clicked' = FALSE
  /\ placePending' = FALSE
  /\ UNCHANGED <<variant, saves>>
  /\ WizardLog("mountProfileSetup", "router", Request("GET /profile/", <<>>))

\* the location no longer renders ProfileSetup: the component leaves the
\* tree and its state is dropped; its check, if under way, is still answered
unmountProfileSetup ==
  /\ page = "wizard"
  /\ Element # Content("ProfileSetup")
  /\ UNCHANGED authVars
  /\ Unmount
  /\ UNCHANGED <<variant, isSubmitting, explicitSubmit, checkPending, saves,
                 clicked>>
  /\ WizardLog("unmountProfileSetup", "router", NoReq)

\* ------------------------------------------------------ router actions
RouteLog(name, kind, req) ==
  /\ UNCHANGED <<authVars, wizardVars, app>>
  /\ Record(name, "no", [IdleCall EXCEPT !.kind = kind], Null, req)

\* the user follows a link or enters an address (navigate, <Link>)
navigate(to) ==
  /\ Settled
  /\ to # path
  /\ checks < MaxChecks
  /\ path' = to
  /\ below' = path
  /\ UNCHANGED <<hasProfile, checkLoading, checkedPath, checks>>
  /\ RouteLog("navigate", "ui", NoReq)

\* the browser's Back button: the entry under the current one is shown; what
\* lies under that one is not tracked
goBack ==
  /\ Settled
  /\ below # Null
  /\ checks < MaxChecks
  /\ path' = below
  /\ below' = Null
  /\ UNCHANGED <<hasProfile, checkLoading, checkedPath, checks>>
  /\ RouteLog("goBack", "ui", NoReq)

\* <Navigate to=... replace /> is rendered: the location is replaced
redirect ==
  /\ Element.kind = "navigate"
  /\ checkedPath = (IF ShouldMount THEN path ELSE Null)
  /\ path' = Element.what
  /\ UNCHANGED <<below, hasProfile, checkLoading, checkedPath, checks>>
  /\ RouteLog("redirect", "router", NoReq)

\* the effect of ProfileCheckRoute, run for the current pathname
pathnameEffect(hp, ld) ==
  /\ checkedPath' = path
  /\ IF path = "/profile-setup"
     THEN /\ hasProfile' = "true"
          /\ checkLoading' = FALSE
          /\ UNCHANGED checks
          /\ RouteLog("effect", "router", NoReq)
     ELSE /\ hasProfile' = hp
          /\ checkLoading' = ld
          /\ checks' = checks + 1
          /\ RouteLog("effect", "router", Request("GET /profile/", <<>>))
  /\ UNCHANGED <<path, below>>

\* ProfileCheckRoute enters the tree: fresh state, then its effect
mountProfileCheckRoute ==
  /\ ShouldMount
  /\ checkedPath = Null
  /\ pathnameEffect(Null, TRUE)

\* location.pathname changed under the mounted component: React keeps its
\* state (same element type at the same place) and runs the effect again
pathnameChanged ==
  /\ ShouldMount
  /\ checkedPath \notin {Null, path}
  /\ pathnameEffect(hasProfile, checkLoading)

\* ProfileCheckRoute leaves the tree: its state is dropped and the answers
\* still under way no longer reach it
unmountProfileCheckRoute ==
  /\ ~ShouldMount
  /\ checkedPath # Null
  /\ checkedPath' = Null
  /\ hasProfile' = Null
  /\ checkLoading' = TRUE
  /\ checks' = 0
  /\ UNCHANGED <<path, below>>
  /\ RouteLog("unmount", "router", NoReq)

\* profileAPI.get() of a checkProfile call is answered: a profile, null, or
\* a rejection
checkProfile(result) ==
  /\ Settled
  /\ checks > 0
  /\ checks' = checks - 1
  /\ hasProfile' = IF result = "profile" THEN "true" ELSE "false"
  /\ checkLoading' = FALSE
  /\ UNCHANGED <<path, below, checkedPath>>
  /\ RouteLog("checkProfile", result, NoReq)

\* Login.handleSubmit in sign-up mode, up to its first await: the account is
\* created with fetch; the login that follows is the store's login
registerFetch ==
  /\ Settled
  /\ Element = Content("Login")
  /\ UNCHANGED <<authVars, wizardVars, routeVars>>
  /\ Record("registerFetch", "no", [IdleCall EXCEPT !.kind = "ui"], Null,
            Fetch("POST /auth/register"))

\* the health probe, sent on load and on a timer
wakeUpBackend ==
  /\ Settled
  /\ UNCHANGED <<authVars, wizardVars, routeVars>>
  /\ Record("wakeUpBackend", "no", [IdleCall EXCEPT !.kind = "timer"], Null,
            Fetch("GET /health"))

\* ---------------------------------------------------------------- specs
\* the router as it is when the store or the wizard is checked on its own
NoRoute ==
  /\ app = "jsx"
  /\ below = Null
  /\ hasProfile = Null
  /\ checkLoading = TRUE
  /\ checkedPath = Null
  /\ checks = 0

\* the wizard as it is when the store is checked: not mounted
NoWizard ==
  /\ variant = "A"
  /\ page = "login"
  /\ step = 1
  /\ loading = FALSE
  /\ wizardError = {}
  /\ workFromHome = FALSE
  /\ checkingProfile = FALSE
  /\ formData = InitialFormData("A")
  /\ hobbyInput = <<>>
  /\ isSubmitting = FALSE
  /\ explicitSubmit = FALSE
  /\ checkPending = FALSE
  /\ saves = EmptyBag
  /\ clicked = FALSE
  /\ placePending = FALSE

AuthInit ==
  /\ token = Null
  /\ user = Null
  /\ isAuthenticated = FALSE
  /\ isLoading = FALSE
  /\ error = Null
  /\ localToken = Null
  /\ authStorage = partialize(Null, Null, FALSE)
  /\ calls = [j \in Slots |-> IdleCall]
  /\ lastOp = NoOp
  /\ lastReq = NoReq
  /\ lastAlert = Null
  /\ NoWizard
  /\ NoRoute
  /\ path = "/"

AuthNext ==
  \/ \E i \in Slots : login(i)
  \/ \E i \in Slots : register(i)
  \/ \E i \in Slots, t \in Tokens : authOk(i, t)
  \/ \E i \in Slots, d \in {Null, ServerDetail} : authFail(i, d)
  \/ \E i \in Slots, u \in Users : loginMeOk(i, u)
  \/ \E i \in Slots, d \in {Null, ServerDetail} : loginMeFail(i, d)
  \/ logout
  \/ \E i \in Slots : fetchUser(i)
  \/ \E i \in Slots, u \in Users : fetchMeOk(i, u)
  \/ \E i \in Slots : fetchMeFail(i)
  \/ clearError
  \/ reload

\* ProfileSetup freshly mounted behind ProtectedRoute: the session is
\* authenticated, the mount effect has sent profileAPI.get()
WizardInit ==
  /\ token = "tok1"
  /\ user = "user1"
  /\ localToken = "tok1"
  /\ authStorage = partialize("tok1", "user1", TRUE)
  /\ isAuthenticated = TRUE
  /\ isLoading = FALSE
  /\ error = Null
  /\ calls = [j \in Slots |-> IdleCall]
  /\ lastOp = NoOp
  /\ lastReq = NoReq
  /\ lastAlert = Null
  /\ NoRoute
  /\ step = 1
  /\ loading = FALSE
  /\ wizardError = {}
  /\ workFromHome = FALSE
  /\ hobbyInput = <<>>
  /\ isSubmitting = FALSE
  /\ explicitSubmit = FALSE
  /\ saves = EmptyBag
  /\ clicked = FALSE
  /\ placePending = FALSE
  /\ \/ /\ path = "/profile-setup"
        /\ variant \in Variants
        /\ page = "wizard"
        /\ checkingProfile = (variant = "C")
        /\ formData = InitialFormData(variant)
        /\ checkPending = TRUE
     \/ \* ProfileSettings after fetchProfile has loaded the stored profile
        /\ path = "/profile-settings"
        /\ variant = "C"
        /\ page = "settings"
        /\ checkingProfile = FALSE
        /\ \E stored \in StoredHobbies :
             formData = [InitialFormData("C") EXCEPT !.hobbies = stored]
        /\ checkPending = FALSE

WizardNext ==
  \/ \E ti \in TimeInputs : setTime(ti[1], ti[2])
  \/ \E value \in Addresses : handleAddressChange(value)
  \/ selectPrediction
  \/ \E value \in Addresses : place_changed(value)
  \/ \E mode \in CommuteModes : setCommutePreference(mode)
  \/ handleWorkFromHomeToggle
  \/ \E n \in NoisePreferences : setNoisePreference(n)
  \/ \E h \in HOBBY_OPTIONS : toggleHobby(h)
  \/ \E text \in HobbyInputs : setHobbyInput(text)
  \/ addHobby
  \/ \E h \in HOBBY_OPTIONS : removeHobby(h)
  \/ \E text \in HobbyInputs : settingsSetHobbyInput(text)
  \/ settingsAddHobby
  \/ \E h \in HOBBY_OPTIONS : settingsRemoveHobby(h)
  \/ handleNext
  \/ handleBack
  \/ handleCompleteSetup
  \/ submitEvent
  \/ \E r \in Pending("save") : saveOk(r)
  \/ \E r \in Pending("save"), d \in {Null, ServerDetail} : saveFail(r, d)
  \/ \E r \in Pending("me"), u \in Users : saveFetchOk(r, u)
  \/ \E r \in Pending("me") : saveFetchFail(r)
  \/ \E r \in Pending("timer") : saveTimer(r)
  \/ \E r \in {"profile", "null", "error"} : checkExistingProfile(r)

\* the application: an empty session on the landing route
RouteInit ==
  /\ token = Null
  /\ user = Null
  /\ isAuthenticated = FALSE
  /\ isLoading = FALSE
  /\ error = Null
  /\ localToken = Null
  /\ authStorage = partialize(Null, Null, FALSE)
  /\ calls = [j \in Slots |-> IdleCall]
  /\ lastOp = NoOp
  /\ lastReq = NoReq
  /\ lastAlert = Null
  /\ NoWizard
  /\ app \in Apps
  /\ path = "/"
  /\ below = Null
  /\ hasProfile = Null
  /\ checkLoading = TRUE
  /\ checkedPath = Null
  /\ checks = 0

RouteNext ==
  \/ \E to \in Paths : navigate(to)
  \/ goBack
  \/ redirect
  \/ mountProfileCheckRoute
  \/ pathnameChanged
  \/ unmountProfileCheckRoute
  \/ \E result \in {"profile", "null", "error"} : checkProfile(result)
  \/ registerFetch
  \/ wakeUpBackend
  \/ login(1)
  \/ \E t \in Tokens : authOk(1, t)
  \/ \E d \in {Null, ServerDetail} : authFail(1, d)
  \/ \E u \in Users : loginMeOk(1, u)
  \/ \E d \in {Null, ServerDetail} : loginMeFail(1, d)
  \/ logout
  \/ fetchUser(1)
  \/ \E u \in Users : fetchMeOk(1, u)
  \/ fetchMeFail(1)

\* the application after a sign-in: Login has navigated to /dashboard with a
\* session whose cached user record may or may not carry the profile flag;
\* App.jsx mounts the ProfileSetup revision that refreshes that record after
\* a save, App.tsx (whose gate asks the backend instead) that of part_004
GateInit ==
  /\ token = "tok1"
  /\ user \in Users
  /\ localToken = "tok1"
  /\ authStorage = partialize("tok1", user, TRUE)
  /\ isAuthenticated = TRUE
  /\ isLoading = FALSE
  /\ error = Null
  /\ calls = [j \in Slots |-> IdleCall]
  /\ lastOp = NoOp
  /\ lastReq = NoReq
  /\ lastAlert = Null
  /\ app \in Apps
  /\ variant = (IF app = "jsx" THEN "B" ELSE "C")
  /\ page = "login"
  /\ step = 1
  /\ loading = FALSE
  /\ wizardError = {}
  /\ workFromHome = FALSE
  /\ checkingProfile = FALSE
  /\ formData = InitialFormData(variant)
  /\ hobbyInput = <<>>
  /\ isSubmitting = FALSE
  /\ explicitSubmit = FALSE
  /\ checkPending = FALSE
  /\ saves = EmptyBag
  /\ clicked = FALSE
  /\ placePending = FALSE
  /\ path = "/dashboard"
  /\ below = (IF app = "jsx" THEN "/login" ELSE "/")
  /\ hasProfile = Null
  /\ checkLoading = TRUE
  /\ checkedPath = Null
  /\ checks = 0

GateNext ==
  \/ \E to \in Paths : navigate(to)
  \/ goBack
  \/ redirect
  \/ mountProfileCheckRoute
  \/ pathnameChanged
  \/ unmountProfileCheckRoute
  \/ \E result \in {"profile", "null", "error"} : checkProfile(result)
  \/ mountProfileSetup
  \/ unmountProfileSetup
  \/ \E r \in {"profile", "null", "error"} : checkExistingProfile(r)

vars == <<authVars, logVars, wizardVars, routeVars>>

\* ---------------------------------------------------------------- claims
\* C1: in every reachable state of the session store, isAuthenticated is
\* true if and only if both token and user are present (non-null).
C1_AuthenticatedIffTokenAndUser ==
  isAuthenticated <=> (token # Null /\ user # Null)

C1_Witness ==
  /\ lastOp.op = "loginMeOk"
  /\ isAuthenticated
  /\ token # Null
  /\ user # Null

\* C2: right after logout() returns, whatever the session was before,
\* isAuthenticated is false, token and user are absent from the store and
\* the token entry of localStorage is removed.  logout has a single outcome.
C2_LogoutClearsSession ==
  lastOp.op = "logout" =>
    /\ ~isAuthenticated
    /\ token = Null
    /\ user = Null
    /\ localToken = Null
    /\ lastOp.settled = "no"

C2_Witness ==
  /\ lastOp.op = "logout"
  /\ {"isAuthenticated", "token", "user", "localToken"} \subseteq
       lastOp.changed

\* C3: when the current-user request of fetchUser() fails, the session ends
\* with token and user absent, isAuthenticated false and the persisted token
\* removed; fetchUser() resolves (does not reject) and leaves error alone.
C3_FailedFetchResetsSession ==
  lastOp.op = "fetchMeFail" =>
    /\ token = Null
    /\ user = Null
    /\ ~isAuthenticated
    /\ localToken = Null
    /\ lastOp.settled = "resolved"
    /\ "error" \notin lastOp.changed

C3_Witness ==
  /\ lastOp.op = "fetchMeFail"
  /\ {"isAuthenticated", "token", "user", "localToken"} \subseteq
       lastOp.changed
  /\ error # Null

\* C4: when login or register fails at either step, an error string is
\* surfaced, isLoading ends false, and no step of the call has given token,
\* user, isAuthenticated or the persisted token a new value.
C4_FailedLoginLeavesSession ==
  lastOp.op = "loginCatch" =>
    /\ lastOp.settled = "rejected"
    /\ error # Null
    /\ ~isLoading
    /\ ~lastOp.wrote

\* C5: login persists the issued token before it sends the current-user
\* request (which therefore carries it), and when that request succeeds the
\* store ends with isAuthenticated true, token the issued token, user the
\* returned record and isLoading false.
C5_LoginSuccess ==
  lastOp.kind = "login" =>
    /\ lastOp.op = "authOk" =>
         /\ localToken = lastOp.tok
         /\ lastReq.path = "GET /auth/me"
         /\ lastReq.hdr = Bearer(lastOp.tok)
    /\ lastOp.op = "loginMeOk" =>
         /\ isAuthenticated
         /\ token = lastOp.tok
         /\ user = lastOp.usr
         /\ ~isLoading
         /\ lastOp.settled = "resolved"

C5_Witness ==
  /\ lastOp.kind = "login"
  /\ lastOp.op = "loginMeOk"
  /\ token \in Tokens
  /\ user \in Users
  /\ "token" \in lastOp.changed

\* C6: the wizard sends no profile-save request unless "Complete Setup" has
\* been clicked: as long as it has not, no submit event, at any step and
\* with any draft, sends one, and none is outstanding.
C6_NoSaveWithoutClick ==
  ~clicked =>
    /\ lastOp.op # "sent"
    /\ saves = EmptyBag
    /\ ~isSubmitting

C6_Witness ==
  /\ ~clicked
  /\ step = 3
  /\ lastOp.op = "blocked"
  /\ lastOp.kind = "event"
  /\ validationErrors(variant, 1, formData, workFromHome) = {}
  /\ validationErrors(variant, 2, formData, workFromHome) = {}

\* C7: at any moment at most one profile-save request of the wizard is
\* outstanding.
C7_AtMostOneSaveOutstanding ==
  CopiesIn(Awaiting("save", Null), saves) <= 1

\* C8: the wizard sends a profile-save request only from the final step.
C8_SaveOnlyFromFinalStep ==
  lastOp.op = "sent" => step = 3

\* C9: when work-from-home is on at submission, the submitted payload has
\* commute_preference "none" and work_address "Work from Home".
C9_WorkFromHomePayload ==
  (lastOp.op = "sent" /\ workFromHome) =>
    /\ lastReq.body.commute_preference = "none"
    /\ lastReq.body.work_address = WorkFromHomeAddress

C9_Witness ==
  /\ lastOp.op = "sent"
  /\ workFromHome
  /\ lastReq.body.work_address = WorkFromHomeAddress

\* C10: the submitted payload has no hobbies key when the selection is
\* empty, and carries exactly the selected hobbies when it is not.
C10_HobbiesOmittedWhenEmpty ==
  lastOp.op = "sent" =>
    IF formData.hobbies = <<>>
    THEN "hobbies" \notin DOMAIN lastReq.body
    ELSE /\ "hobbies" \in DOMAIN lastReq.body
         /\ lastReq.body.hobbies = formData.hobbies

C10_Witness ==
  /\ lastOp.op = "sent"
  /\ formData.hobbies = <<>>
  /\ "hobbies" \notin DOMAIN lastReq.body

C10_WitnessSelected ==
  /\ lastOp.op = "sent"
  /\ Len(formData.hobbies) = 2
  /\ lastReq.body.hobbies = formData.hobbies

\* C11: in every submitted wizard payload, work_hours is the draft's work
\* start time, " - ", and its work end time, and sleep_hours is the draft's
\* sleep start time, " - ", and its sleep end time.
C11_HoursRangeStrings ==
  lastOp.op = "sent" =>
    /\ lastReq.body.work_hours =
         formData.work_hours_start \o " - " \o formData.work_hours_end
    /\ lastReq.body.sleep_hours =
         formData.sleep_hours_start \o " - " \o formData.sleep_hours_end

C11_Witness ==
  /\ lastOp.op = "sent"
  /\ formData.work_hours_start = WorkStart
  /\ formData.sleep_hours_end = SleepEnd
  /\ lastReq.body.work_hours = "09:00 - 17:00"
  /\ lastReq.body.sleep_hours = "23:00 - 07:00"

\* C12: while isAuthenticated is false no protected route renders its
\* content: ProtectedRoute renders a redirect to the landing route "/".
C12_NoProtectedContentUnauthenticated ==
  ~isAuthenticated =>
    /\ Element.kind = "content" => Element.what \in {"LandingPage", "Login"}
    /\ path \notin {"/", "/login"} => Element = NavigateTo("/")

C12_Witness ==
  /\ lastOp.op = "logout"
  /\ "isAuthenticated" \in lastOp.changed
  /\ path \in {"/dashboard", "/profile-setup", "/profile-settings",
               "/new-analysis", "/analysis/1"}
  /\ Element = NavigateTo("/")

C14_EveryRequestCarriesToken ==
  lastReq.path \notin {"none", "GET /health"} =>
    lastReq.hdr = (IF localToken # Null THEN Bearer(localToken) ELSE Null)

\* C14 (amended): every request sent through the shared axios instance
\* carries Authorization: Bearer <token> when localStorage holds a token as
\* it is sent and no such header otherwise; the health probe and the sign-up
\* request of the Login page are sent with fetch and never carry the header.
C14_ApiRequestsCarryToken ==
  /\ lastReq.via = "api" =>
       lastReq.hdr = (IF localToken # Null THEN Bearer(localToken) ELSE Null)
  /\ lastReq.via = "fetch" =>
       /\ lastReq.hdr = Null
       /\ lastReq.path \in {"GET /health", "POST /auth/register"}

C14_Witness ==
  /\ lastReq.via = "api"
  /\ lastReq.path = "GET /profile/"
  /\ localToken \in Tokens
  /\ lastReq.hdr = Bearer(localToken)

\* C15 (as stated): a reload restores token, user and isAuthenticated as
\* they were, before any response arrives, with isLoading false and error
\* absent, and the 'auth-storage' slot is the only session state that
\* survives: the persisted token is the slot's token.
C15_SlotIsOnlyPersistedState ==
  lastOp.op = "reload" =>
    /\ lastOp.changed \cap {"token", "user", "isAuthenticated"} = {}
    /\ ~isLoading
    /\ error = Null
    /\ \A i \in Slots : calls[i].pc \in {"idle", "me"}
    /\ localToken = authStorage.token

\* C15 (amended): a reload restores token, user and isAuthenticated as they
\* were, before any response arrives, with isLoading false and error absent;
\* besides the 'auth-storage' slot the entry 'token' of localStorage survives
\* the reload as well, unchanged.
C15_ReloadRestoresSession ==
  lastOp.op = "reload" =>
    /\ lastOp.changed \cap {"token", "user", "isAuthenticated"} = {}
    /\ ~isLoading
    /\ error = Null
    /\ \A i \in Slots : calls[i].pc \in {"idle", "me"}
    /\ authStorage = partialize(token, user, isAuthenticated)
    /\ "localToken" \notin lastOp.changed

C15_Witness ==
  /\ lastOp.op = "reload"
  /\ isAuthenticated
  /\ token \in Tokens
  /\ user \in Users
  /\ "error" \in lastOp.changed

\* C16: fetchUser() called with no token in localStorage is a no-op: it
\* sends no request, resolves at once and leaves token, user,
\* isAuthenticated, isLoading, error and the persisted token as they were.
C16_FetchUserWithoutTokenIsNoOp ==
  (lastOp.op = "fetchUser" /\ localToken = Null) =>
    /\ lastReq = NoReq
    /\ lastOp.changed = {}
    /\ lastOp.settled = "resolved"

C16_Witness ==
  /\ lastOp.op = "fetchUser"
  /\ localToken = Null
  /\ isAuthenticated
  /\ error # Null

\* C17: the explicit-intent flag is set only by a click on "Complete Setup",
\* and after every run of the submit handler, whatever its outcome (blocked,
\* validation failure, save started, save succeeded, save failed), the flag
\* is unset.
C17_FlagConsumedBySubmit ==
  /\ explicitSubmit => clicked
  /\ lastOp.op \in {"blocked", "invalid", "sent", "saveOk", "saveFailed",
                    "saveFetchOk", "saveFetchFail", "saveTimer"} =>
       ~explicitSubmit

\* C18: Next from step 1 or 2 validates that step: on failure the step is
\* kept and an error is shown, on success the step advances by one and no
\* error remains; Next sends no request, leaves the draft alone and never
\* moves past step 3.
C18_NextValidatesStep ==
  [][lastOp'.op = "next" =>
       LET errs == validationErrors(variant, step, formData, workFromHome)
       IN /\ step \in {1, 2}
          /\ IF errs # {}
             THEN step' = step /\ wizardError' # {}
             ELSE step' = step + 1 /\ wizardError' = {}
          /\ step' <= 3
          /\ lastReq' = NoReq
          /\ saves' = saves
          /\ formData' = formData]_vars

C18_Witness ==
  /\ lastOp.op = "next"
  /\ step = 2
  /\ wizardError # {}
  /\ validationErrors(variant, 1, formData, workFromHome) = {}

\* C19: Back is enabled on steps 2 and 3 whatever the draft holds; it moves
\* to the previous step, clears the errors without validating the step it
\* leaves, and changes no draft field; the step never goes below 1.
C19_BackKeepsDraft ==
  /\ []((FormMounted /\ step > 1 /\ (variant = "A" => ~loading)) =>
          ENABLED handleBack)
  /\ [](step >= 1)
  /\ [][lastOp'.op = "back" =>
          /\ step' = step - 1
          /\ step' >= 1
          /\ wizardError' = {}
          /\ formData' = formData
          /\ workFromHome' = workFromHome
          /\ hobbyInput' = hobbyInput
          /\ lastReq' = NoReq]_vars

C19_Witness ==
  /\ lastOp.op = "back"
  /\ step = 1
  /\ validationErrors(variant, 2, formData, workFromHome) # {}
  /\ wizardError = {}

C21_FailedSaveAllowsRetry ==
  /\ [][lastOp'.op = "saveFailed" =>
          /\ page = "wizard" =>
               IF variant = "C"
               THEN lastAlert' = SaveFailedAlert
               ELSE wizardError' \in {{ServerDetail},
                      {"Failed to create profile. Please try again."}}
          /\ ~explicitSubmit'
          /\ ~isSubmitting'
          /\ ~loading'
          /\ formData' = formData
          /\ workFromHome' = workFromHome
          /\ hobbyInput' = hobbyInput
          /\ step' = step
          /\ page' = page]_vars
  /\ []((lastOp.op = "saveFailed" /\ page = "wizard" /\ step = 3) =>
          ENABLED handleCompleteSetup)
  /\ [][(lastOp.op = "saveFailed" /\ lastOp'.kind = "click") =>
          /\ lastOp'.op = "sent"
          /\ lastReq'.path = "POST /profile/"
          /\ lastReq'.body =
               JsonBody(profileData(variant, formData, workFromHome))
          /\ formData' = formData]_vars

C21_Witness ==
  /\ lastOp.op = "saveFailed"
  /\ page = "wizard"
  /\ step = 3
  /\ formData.work_address = "123 Main St"
  /\ Len(formData.hobbies) > 0
  /\ saves = EmptyBag

\* C23: while a save request of the wizard is in flight, Next, Back and the
\* submit control do nothing: no such step is taken and the current step
\* stays as it is until the request completes.
C23_ControlsDisabledInFlight ==
  [][(Pending("save") # {} /\ page = "wizard") =>
       /\ lastOp'.op \in {"next", "back", "sent", "invalid"} =>
            lastOp' = lastOp
       /\ page' = "wizard" => step' = step]_vars

\* C30: when the mount-time profile check completes while a save request is
\* outstanding, the wizard stays mounted, loading stays set and "Complete
\* Setup" stays disabled.
C30_CheckLeavesSaveAlone ==
  (lastOp.op = "checked" /\ Pending("save") # {}) =>
    /\ page = "wizard"
    /\ loading
    /\ ~ENABLED handleCompleteSetup

\* C28: whenever isAuthenticated is true, localStorage holds a token under
\* 'token' (the key the request interceptor reads) and it is the store's
\* token.
C28_StoredTokenMatchesSession ==
  isAuthenticated =>
    /\ localToken # Null
    /\ localToken = token

\* C29: once logout() has run, the completion of a login, register or
\* fetchUser call that was in flight when it ran does not set isAuthenticated
\* back to true: the session stays unauthenticated until a call started
\* after the logout succeeds.  Checked on the step that follows logout(),
\* which can only complete a call started before it.
C29_LogoutNotUndoneByLateCompletion ==
  [][(lastOp.op = "logout" /\ lastOp'.op \in {"loginMeOk", "fetchMeOk"}) =>
       ~isAuthenticated']_vars

\* C27: the hobby list of the wizard and of the profile settings form never
\* holds an entry twice; every step leaves it as it is, appends one entry
\* that was not in it, or takes entries out while keeping the order of the
\* rest, so the entries stand in the order in which they were added; adding
\* a hobby that is already in the list leaves the list unchanged.
C27_HobbyListNoDuplicates ==
  /\ [](\A j, k \in 1..Len(formData.hobbies) :
          formData.hobbies[j] = formData.hobbies[k] => j = k)
  /\ [][LET old == formData.hobbies
            new == formData'.hobbies
        IN /\ \/ new = old
              \/ \E h \in HOBBY_OPTIONS :
                   /\ \A k \in 1..Len(old) : old[k] # h
                   /\ new = Append(old, h)
              \/ \E h \in HOBBY_OPTIONS :
                   new = SelectSeq(old, LAMBDA x : x # h)
              \/ page' \notin {"wizard", "settings"} /\ new = <<>>
           /\ (/\ lastOp'.op \in {"addHobby", "settingsAddHobby"}
               /\ \E k \in 1..Len(old) : old[k] = trim(hobbyInput)) =>
                new = old]_vars

C27_Witness ==
  /\ lastOp.op \in {"addHobby", "settingsAddHobby"}
  /\ Len(formData.hobbies) = 2
  /\ hobbyInput = <<"gym", " ">>
  /\ formData.hobbies[1] = "hiking"
  /\ formData.hobbies[2] = "gym"

\* C24: while the profile check of the current gated route is unanswered
\* the route renders the loading state only, neither the gated content nor
\* a redirect.  Checked in the state right after the effect has sent the
\* check for the current pathname, where that check is certainly unanswered.
C24_OnlyLoadingWhileCheckPending ==
  (lastOp.op = "effect" /\ lastReq.path = "GET /profile/") =>
    Element = Spinner

\* C25: authentication is tested before profile completeness: no
\* profile-existence request is sent for an unauthenticated visitor, whose
\* visit to a profile-gated route is answered with a redirect to "/", never
\* to /profile-setup.
C25_AuthenticationCheckedFirst ==
  /\ (lastOp.op = "effect" /\ lastReq.path = "GET /profile/") =>
       isAuthenticated
  /\ ~isAuthenticated =>
       /\ path \in CheckedPaths => Element = NavigateTo("/")
       /\ Element # NavigateTo("/profile-setup")
       /\ ~ENABLED mountProfileCheckRoute
       /\ ~ENABLED pathnameChanged

C25_Witness ==
  /\ ~isAuthenticated
  /\ lastOp.op = "navigate"
  /\ path \in CheckedPaths
  /\ app = "tsx"
  /\ Element = NavigateTo("/")
  /\ checks = 0

\* ---------------------------------------------------------------- C22
\* the step just taken is the one on which a successful save navigated:
\* the first revision navigates when the save resolves, the second after
\* the awaited fetchUser() (at once when no token is stored), part_004 when
\* its 500 ms timer fires
SaveNavigated ==
  \/ lastOp.op \in {"saveFetchOk", "saveFetchFail", "saveTimer"}
  \/ lastOp.op = "saveOk" /\ variant = "A"
  \/ lastOp.op = "saveOk" /\ variant = "B" /\ lastReq = NoReq

\* C22 as stated: when the profile-save request succeeds the wizard
\* navigates to /dashboard replacing its history entry, the user ends on
\* the dashboard still authenticated, and going back does not reopen the
\* wizard.
C22_SavedEndsOnDashboardAuthenticated ==
  SaveNavigated =>
    /\ path = "/dashboard"
    /\ below # "/profile-setup"
    /\ isAuthenticated
    /\ Element # NavigateTo("/")

\* C22 amended: when the profile-save request succeeds the wizard is torn
\* down and navigates to /dashboard replacing its own history entry (the
\* entry under it, where Back leads, is left as it was).  The revisions
\* that navigate without refreshing the user leave the session untouched;
\* the revision that awaits fetchUser() arrives authenticated when the
\* current-user request succeeds, and arrives with the session cleared,
\* so that /dashboard redirects to the landing route, when it fails.
C22_SavedReplacesWizardEntry ==
  /\ [][SaveNavigated' =>
          /\ path' = "/dashboard"
          /\ below' = below
          /\ page' # "wizard"
          /\ lastOp'.op \in {"saveOk", "saveTimer"} =>
                UNCHANGED <<isAuthenticated, token, user, localToken>>]_vars
  /\ []((SaveNavigated /\ lastOp.op = "saveFetchOk") =>
          isAuthenticated /\ Element # NavigateTo("/"))
  /\ []((SaveNavigated /\ lastOp.op = "saveFetchFail") =>
          ~isAuthenticated /\ localToken = Null
            /\ Element = NavigateTo("/"))

C22_Witness ==
  /\ lastOp.op = "saveFetchOk"
  /\ path = "/dashboard"
  /\ below = Null
  /\ page = "dashboard"
  /\ isAuthenticated
  /\ saves = EmptyBag

\* ---------------------------------------------------------------- C26
\* C26: /profile-setup is exempt from the profile-completeness gate, an
\* authenticated user without a profile who is redirected there is shown the
\* wizard, and no execution redirects forever between a profile-gated route
\* and /profile-setup: in every execution the redirects come to an end,
\* unless the user keeps navigating or the gate's own profile check keeps
\* being answered with "no profile" or with a failure.
C26_NoRedirectLoop ==
  \/ <>[][lastOp'.op # "redirect"]_vars
  \/ []<><<lastOp'.kind = "ui">>_vars
  \/ []<><<lastOp'.op = "checkProfile" /\ lastOp'.kind # "profile">>_vars

Init == AuthInit

Next == AuthNext

Spec == Init /\ [][Next]_vars

WizardSpec == WizardInit /\ [][WizardNext]_vars

RouteSpec == RouteInit /\ [][RouteNext]_vars

GateSpec == GateInit /\ [][GateNext]_vars

\* React commits every render and runs every effect that is due, and every
\* request is answered in the end; the user is free never to act
GateFairSpec ==
  /\ GateSpec
  /\ WF_vars(redirect)
  /\ WF_vars(mountProfileCheckRoute)
  /\ WF_vars(pathnameChanged)
  /\ WF_vars(unmountProfileCheckRoute)
  /\ WF_vars(mountProfileSetup)
  /\ WF_vars(unmountProfileSetup)
  /\ WF_vars(\E result \in {"profile", "null", "error"} :
               checkProfile(result))
  /\ WF_vars(\E r \in {"profile", "null", "error"} :
               checkExistingProfile(r))

====
